---- MODULE Spec2Model ----
(***************************************************************************)
(* pytest-revealtype-injector: the checker adapters that turn a static     *)
(* type checker's diagnostics into a table Position -> VarType, the        *)
(* replacement of reveal_type() that cross-checks each table against the   *)
(* runtime value, and the pytest hooks that drive both.                    *)
(***************************************************************************)
EXTENDS Integers, Sequences, FiniteSets, TLC

\* ------------------------------------------------------------------ bounds
\* longest diagnostic stream one checker run reports
MaxDiags == 2
\* test functions of one module, each preceded by pytest_pyfunc_call
MaxHookRuns == 2

\* ----------------------------------------------------------------- helpers
\* Python's None (VarType.var, TypeCheckerError.file / .lineno)
None == "<None>"

Range(s) == {s[i] : i \in 1..Len(s)}

\* sequences over S of length 0..n
SeqsUpTo(S, n) == UNION {[1..k -> S] : k \in 0..n}

\* pathlib.Path(p).name: the last component of a path
PathName(p) == <<p[Len(p)]>>

\* ------------------------------------------------- type expressions (ast)
\* A type text (ForwardRef.__forward_arg__) is a sequence of tokens.
Punct == {".", "[", "]", "@"}
\* characters mypy inserts into a revealed type
Decoration == {"*", "?", "="}
NumTokens == {"97"}
IsIdent(t) == t \notin (Punct \cup Decoration \cup NumTokens)

Name(id) == [kind |-> "Name", id |-> id]
Attribute(v, attr) == [kind |-> "Attribute", value |-> v, attr |-> attr]
Subscript(v, s) == [kind |-> "Subscript", value |-> v, slice |-> s]
BinOp(l, r) == [kind |-> "BinOp", op |-> "MatMult", left |-> l, right |-> r]
Constant(c) == [kind |-> "Constant", value |-> c]
SyntaxError == [kind |-> "SyntaxError"]

RECURSIVE ParseExpr(_)
RECURSIVE ParseTrailers(_, _)
RECURSIVE ParseMatMult(_, _)

Parsed(node, rest) == [node |-> node, rest |-> rest]

ParseAtom(toks) ==
    IF toks = <<>> THEN Parsed(SyntaxError, <<>>)
    ELSE IF Head(toks) \in NumTokens
         THEN Parsed(Constant(Head(toks)), Tail(toks))
    ELSE IF IsIdent(Head(toks))
         THEN Parsed(Name(Head(toks)), Tail(toks))
    ELSE Parsed(SyntaxError, toks)

\* value[slice]: the slice has been parsed, the bracket must close
ParseSubscript(node, toks, inner) ==
    IF inner.node # SyntaxError /\ inner.rest # <<>> /\ Head(inner.rest) = "]"
    THEN ParseTrailers(Subscript(node, inner.node), Tail(inner.rest))
    ELSE Parsed(SyntaxError, toks)

\* attribute access and subscription bind tighter than '@'
ParseTrailers(node, toks) ==
    IF node = SyntaxError \/ toks = <<>> THEN Parsed(node, toks)
    ELSE IF Head(toks) = "."
         THEN IF Len(toks) >= 2 /\ IsIdent(toks[2])
              THEN ParseTrailers(Attribute(node, toks[2]), SubSeq(toks, 3, Len(toks)))
              ELSE Parsed(SyntaxError, toks)
    ELSE IF Head(toks) = "["
         THEN ParseSubscript(node, toks, ParseExpr(Tail(toks)))
    ELSE Parsed(node, toks)

ParseTrailersOf(atom) == ParseTrailers(atom.node, atom.rest)

ParsePostfix(toks) == ParseTrailersOf(ParseAtom(toks))

ParseRightOperand(left, r) ==
    ParseMatMult(IF r.node = SyntaxError THEN SyntaxError ELSE BinOp(left, r.node),
                 r.rest)

ParseMatMult(left, toks) ==
    IF left = SyntaxError \/ toks = <<>> \/ Head(toks) # "@"
    THEN Parsed(left, toks)
    ELSE ParseRightOperand(left, ParsePostfix(Tail(toks)))

ParseMatMultOf(p) == ParseMatMult(p.node, p.rest)

ParseExpr(toks) == ParseMatMultOf(ParsePostfix(toks))

WholeInput(r) ==
    IF r.node # SyntaxError /\ r.rest = <<>> THEN r.node ELSE SyntaxError

\* ast.parse(text, mode="eval").body
ast_parse(text) == WholeInput(ParseExpr(text))

RECURSIVE ast_unparse(_)
ast_unparse(node) ==
    CASE node.kind = "Name" -> <<node.id>>
      [] node.kind = "Constant" -> <<node.value>>
      [] node.kind = "Attribute" -> ast_unparse(node.value) \o <<".", node.attr>>
      [] node.kind = "Subscript" ->
            ast_unparse(node.value) \o <<"[">> \o ast_unparse(node.slice) \o <<"]">>
      [] node.kind = "BinOp" ->
            ast_unparse(node.left) \o <<"@">> \o ast_unparse(node.right)

\* ------------------------------------------------------- the runtime world
\* Python objects a type expression can denote
Module(n) == [obj |-> "module", name |-> n]
Class(n) == [obj |-> "class", name |-> n]
Special(n) == [obj |-> "special", name |-> n]
Alias(origin, arg) == [obj |-> "alias", origin |-> origin, arg |-> arg]
Number(n) == [obj |-> "number", name |-> n]

\* exceptions: the class, and args[0] as a sequence of message parts
Exc(cls, msg) == [exc |-> cls, msg |-> msg]
IsExc(r) == "exc" \in DOMAIN r
NoExc == [ok |-> TRUE]

\* modules importlib.import_module() finds; the stub-only module "stub"
\* (a name mypy reports from a .pyi file) is not among them
ImportableModules == {"builtins", "typing", "typing_extensions", "lib"}
BuiltinNames == {"int", "str", "list"}
\* classes whose runtime class supports __class_getitem__
SubscriptableClasses == {"list"}

ModuleAttrs(m) ==
    CASE m = "builtins" -> BuiltinNames
      [] m = "typing" -> {"Any"}
      [] m = "typing_extensions" -> {"Any"}
      [] m = "lib" -> {"Elem"}
      [] OTHER -> {}

hasattr(o, attr) == o.obj = "module" /\ attr \in ModuleAttrs(o.name)

getattr(o, attr) ==
    IF ~hasattr(o, attr)
    THEN Exc("AttributeError", <<o.name, " has no attribute ", attr>>)
    ELSE IF attr = "Any" THEN Special("Any") ELSE Class(attr)

import_module(text) ==
    IF Len(text) = 1 /\ text[1] \in ImportableModules
    THEN Module(text[1])
    ELSE Exc("ModuleNotFoundError", <<"No module named ">> \o text)

\* dict | dict: the right operand wins
DictUnion(a, b) ==
    [k \in DOMAIN a \cup DOMAIN b |-> IF k \in DOMAIN b THEN b[k] ELSE a[k]]

EmptyDict == [k \in {} |-> None]

\* eval(name, globalns, localns) of a bare identifier: locals, globals, builtins
py_eval(name, globalns, localns) ==
    IF <<name>> \in DOMAIN localns THEN localns[<<name>>]
    ELSE IF <<name>> \in DOMAIN globalns THEN globalns[<<name>>]
    ELSE IF name \in BuiltinNames THEN Class(name)
    ELSE Exc("NameError", <<"name ", name, " is not defined">>)

\* the caller's frame: the test module imported Elem from lib
CallerGlobals == [k \in {<<"Elem">>} |-> Class("Elem")]
CallerLocals == EmptyDict

\* runtime values handed to reveal_type()
IntVal == [cls |-> "int"]
StrVal == [cls |-> "str"]
ElemVal == [cls |-> "Elem"]
Values == {IntVal, StrVal, ElemVal}

\* ------------------------------------------ typeguard.check_type_internal
GetAttrOf(v, attr) == IF IsExc(v) THEN v ELSE getattr(v, attr)

\* value[slice] at runtime: only a class with __class_getitem__ accepts it
SubscriptOf(v, s) ==
    IF IsExc(v) THEN v
    ELSE IF IsExc(s) THEN s
    ELSE IF v.obj = "class" /\ v.name \in SubscriptableClasses
         THEN Alias(v.name, s)
    ELSE IF v.obj = "alias"
         THEN Exc("TypeError", <<v.origin, " is not a generic class">>)
    ELSE Exc("TypeError", <<v.obj, " ", v.name, " ", "is not subscriptable">>)

MatMultOf(lt, rt) ==
    IF IsExc(lt) THEN lt
    ELSE IF IsExc(rt) THEN rt
    ELSE Exc("TypeError", <<"unsupported operand type(s) for @">>)

\* evaluation of the forward reference in the memo's namespaces
RECURSIVE EvalType(_, _, _)
EvalType(node, globalns, localns) ==
    CASE node.kind = "Name" -> py_eval(node.id, globalns, localns)
      [] node.kind = "Constant" -> Number(node.value)
      [] node.kind = "Attribute" ->
            GetAttrOf(EvalType(node.value, globalns, localns), node.attr)
      [] node.kind = "Subscript" ->
            SubscriptOf(EvalType(node.value, globalns, localns),
                        EvalType(node.slice, globalns, localns))
      [] node.kind = "BinOp" ->
            MatMultOf(EvalType(node.left, globalns, localns),
                      EvalType(node.right, globalns, localns))
      [] OTHER -> Exc("SyntaxError", <<"invalid syntax">>)

\* the value against the evaluated type
Conforms(value, t) ==
    CASE t.obj = "class" -> value.cls = t.name
      [] t.obj = "special" -> TRUE
      [] t.obj = "alias" -> value.cls = t.origin
      [] OTHER -> FALSE

CheckAgainst(value, ref, t) ==
    IF IsExc(t) THEN t
    ELSE IF Conforms(value, t) THEN NoExc
    ELSE Exc("TypeCheckError", <<value.cls, " is not an instance of ">> \o ref)

\* check_type_internal(value, ForwardRef(ref), memo): NoExc, or the exception
check_type_internal(value, ref, globalns, localns) ==
    CheckAgainst(value, ref, EvalType(ast_parse(ref), globalns, localns))

\* ------------------------------------------------------------ the models
Adapters == {"pyright", "mypy"}

FilePos(file, lineno) == [file |-> file, lineno |-> lineno]
VarType(var, type) == [var |-> var, type |-> type]
TypeCheckerError(msg, file, lineno) ==
    [exc |-> "TypeCheckerError", msg |-> msg, file |-> file, lineno |-> lineno]

\* ---------------------------------------------------------- name collectors
Visited(node, coll, modified, exc) ==
    [node |-> node, collected |-> coll, modified |-> modified, exc |-> exc]

\* NameCollector.collected of the mypy adapter: a class attribute, one dict
\* for every instance
MypyCollectedSeed ==
    [k \in {<<"builtins">>, <<"typing">>} |-> Module(k[1])]

\* the seed of a pyright collector instance
PyrightCollectedSeed ==
    [k \in {<<"builtins">>, <<"typing">>, <<"typing_extensions">>} |-> Module(k[1])]

\* self.collected[key] = value
Collect(coll, key, value) == (key :> value) @@ coll

RECURSIVE MypyVisit(_, _, _, _, _, _)

\* visit_Name of the mypy collector
MypyVisitName(node, g, l, coll, modified) ==
    IF ~IsExc(py_eval(node.id, g, DictUnion(l, coll)))
    THEN Visited(node, coll, modified, NoExc)
    ELSE IF ~IsExc(import_module(<<node.id>>))
    THEN Visited(node, Collect(coll, <<node.id>>, import_module(<<node.id>>)),
                 modified, NoExc)
    ELSE IF hasattr(coll[<<"builtins">>], node.id)
    THEN Visited(node,
                 Collect(coll, <<node.id>>, getattr(coll[<<"builtins">>], node.id)),
                 modified, NoExc)
    ELSE IF hasattr(coll[<<"typing">>], node.id)
    THEN Visited(node,
                 Collect(coll, <<node.id>>, getattr(coll[<<"typing">>], node.id)),
                 modified, NoExc)
    ELSE Visited(node, coll, modified, Exc("NameError", <<"Cannot resolve ", node.id>>))

\* visit_Attribute after generic_visit(node): r is the visit of node.value
MypyCollectAttribute(node, prefix, r) ==
    IF IsExc(r.exc) THEN r
    ELSE IF prefix \notin DOMAIN r.collected
    THEN Visited([node EXCEPT !.value = r.node], r.collected, r.modified,
                 Exc("KeyError", prefix))
    ELSE IF IsExc(getattr(r.collected[prefix], node.attr))
    THEN Visited([node EXCEPT !.value = r.node], r.collected, r.modified,
                 getattr(r.collected[prefix], node.attr))
    ELSE Visited([node EXCEPT !.value = r.node],
                 Collect(r.collected, ast_unparse([node EXCEPT !.value = r.node]),
                         getattr(r.collected[prefix], node.attr)),
                 r.modified, NoExc)

\* visit_Attribute of the mypy collector; is_parent marks an inner node of a
\* dotted chain
MypyVisitAttribute(node, is_parent, prefix, g, l, coll, modified) ==
    IF ~is_parent /\ IsExc(import_module(prefix))
    THEN IF IsExc(py_eval(node.attr, g, DictUnion(l, coll)))
         THEN Visited(node, coll, modified,
                      Exc("NameError",
                          <<"Cannot resolve ">> \o prefix \o <<" or ", node.attr>>))
         ELSE Visited(Name(node.attr), coll, TRUE, NoExc)
    ELSE MypyCollectAttribute(node, prefix,
                              MypyVisit(node.value, TRUE, g, l, coll, modified))

\* generic_visit of a node with two children: the second child is visited
\* with what the first left behind
VisitedPair(kind, first, second) ==
    IF IsExc(first.exc) THEN first
    ELSE IF IsExc(second.exc) THEN second
    ELSE Visited(IF kind = "Subscript" THEN Subscript(first.node, second.node)
                 ELSE BinOp(first.node, second.node),
                 second.collected, second.modified, NoExc)

MypyVisitSecond(kind, child, g, l, first) ==
    VisitedPair(kind, first,
                MypyVisit(child, FALSE, g, l, first.collected, first.modified))

\* NodeTransformer.visit: dispatch on the node class, generic_visit otherwise
MypyVisit(node, is_parent, g, l, coll, modified) ==
    CASE node.kind = "Name" -> MypyVisitName(node, g, l, coll, modified)
      [] node.kind = "Attribute" ->
            MypyVisitAttribute(node, is_parent, ast_unparse(node.value),
                               g, l, coll, modified)
      [] node.kind = "Subscript" ->
            MypyVisitSecond("Subscript", node.slice, g, l,
                            MypyVisit(node.value, FALSE, g, l, coll, modified))
      [] node.kind = "BinOp" ->
            MypyVisitSecond("BinOp", node.right, g, l,
                            MypyVisit(node.left, FALSE, g, l, coll, modified))
      [] OTHER -> Visited(node, coll, modified, NoExc)

RECURSIVE PyrightVisit(_, _, _, _)

\* visit_Name of the pyright collector
PyrightVisitName(node, g, l, coll) ==
    IF ~IsExc(py_eval(node.id, g, DictUnion(l, coll)))
    THEN Visited(node, coll, FALSE, NoExc)
    ELSE IF hasattr(coll[<<"typing">>], node.id)
    THEN Visited(node, Collect(coll, <<node.id>>, getattr(coll[<<"typing">>], node.id)),
                 FALSE, NoExc)
    ELSE IF hasattr(coll[<<"typing_extensions">>], node.id)
    THEN Visited(node,
                 Collect(coll, <<node.id>>,
                         getattr(coll[<<"typing_extensions">>], node.id)),
                 FALSE, NoExc)
    ELSE Visited(node, coll, FALSE, py_eval(node.id, g, DictUnion(l, coll)))

PyrightVisitSecond(kind, child, g, l, first) ==
    VisitedPair(kind, first, PyrightVisit(child, g, l, first.collected))

PyrightVisit(node, g, l, coll) ==
    CASE node.kind = "Name" -> PyrightVisitName(node, g, l, coll)
      [] node.kind = "Attribute" -> PyrightVisit(node.value, g, l, coll)
      [] node.kind = "Subscript" ->
            PyrightVisitSecond("Subscript", node.slice, g, l,
                               PyrightVisit(node.value, g, l, coll))
      [] node.kind = "BinOp" ->
            PyrightVisitSecond("BinOp", node.right, g, l,
                               PyrightVisit(node.left, g, l, coll))
      [] OTHER -> Visited(node, coll, FALSE, NoExc)

\* adapter.NameCollector(globalns, localns).visit(ref_ast); coll is the
\* adapter's dict as the call finds it
CollectNames(a, ref_ast, g, l, coll) ==
    IF a = "mypy" THEN MypyVisit(ref_ast, FALSE, g, l, coll, FALSE)
    ELSE PyrightVisit(ref_ast, g, l, PyrightCollectedSeed)

\* what the adapter's dict holds once the walker is gone
CollectedAfter(a, coll, walked) ==
    IF a = "mypy" THEN walked.collected ELSE coll

\* ------------------------------------- _NameCollector of adapter/mypy_.py
\* the dict a collector of the adapter package starts from
NameCollectorBaseSeed == PyrightCollectedSeed

RECURSIVE NameCollectorVisit(_, _, _, _, _, _)

\* visit_Name
NameCollectorVisitName(node, g, l, coll, modified) ==
    IF ~IsExc(py_eval(node.id, g, DictUnion(l, coll)))
    THEN Visited(node, coll, modified, NoExc)
    ELSE IF ~IsExc(import_module(<<node.id>>))
    THEN Visited(node, Collect(coll, <<node.id>>, import_module(<<node.id>>)),
                 modified, NoExc)
    ELSE IF hasattr(coll[<<"typing">>], node.id)
    THEN Visited(node,
                 Collect(coll, <<node.id>>, getattr(coll[<<"typing">>], node.id)),
                 modified, NoExc)
    ELSE Visited(node, coll, modified, Exc("NameError", <<"Cannot resolve ", node.id>>))

\* visit_Attribute after `_ = self.visit(node.value)`: r is that visit, the
\* node it returned is dropped
NameCollectorResolveAttribute(node, prefix, g, l, r) ==
    IF IsExc(r.exc) THEN Visited(node, r.collected, r.modified, r.exc)
    ELSE IF prefix \notin DOMAIN r.collected
    THEN Visited(node, r.collected, r.modified, Exc("KeyError", prefix))
    ELSE IF ~IsExc(getattr(r.collected[prefix], node.attr))
    THEN Visited(node,
                 Collect(r.collected, ast_unparse(node),
                         getattr(r.collected[prefix], node.attr)),
                 r.modified, NoExc)
    ELSE IF IsExc(py_eval(node.attr, g, DictUnion(l, r.collected)))
    THEN Visited(node, r.collected, r.modified,
                 py_eval(node.attr, g, DictUnion(l, r.collected)))
    ELSE Visited(Name(node.attr), r.collected, TRUE, NoExc)

\* visit_Attribute
NameCollectorVisitAttribute(node, is_parent, prefix, g, l, coll, modified) ==
    IF ~is_parent /\ IsExc(import_module(prefix))
    THEN IF IsExc(py_eval(node.attr, g, DictUnion(l, coll)))
         THEN Visited(node, coll, modified,
                      Exc("NameError",
                          <<"Cannot resolve ">> \o prefix \o <<" or ", node.attr>>))
         ELSE Visited(Name(node.attr), coll, TRUE, NoExc)
    ELSE NameCollectorResolveAttribute(
             node, prefix, g, l,
             NameCollectorVisit(node.value, TRUE, g, l, coll, modified))

\* visit_BinOp
NameCollectorVisitBinOp(node, g, l, coll, modified) ==
    IF node.op = "MatMult" /\ node.right.kind = "Constant"
    THEN NameCollectorVisit(node.left, FALSE, g, l, coll, modified)
    ELSE Visited(node, coll, modified, NoExc)

NameCollectorVisitSecond(kind, child, g, l, first) ==
    VisitedPair(kind, first,
                NameCollectorVisit(child, FALSE, g, l, first.collected,
                                   first.modified))

\* NodeTransformer.visit
NameCollectorVisit(node, is_parent, g, l, coll, modified) ==
    CASE node.kind = "Name" -> NameCollectorVisitName(node, g, l, coll, modified)
      [] node.kind = "Attribute" ->
            NameCollectorVisitAttribute(node, is_parent, ast_unparse(node.value),
                                        g, l, coll, modified)
      [] node.kind = "BinOp" -> NameCollectorVisitBinOp(node, g, l, coll, modified)
      [] node.kind = "Subscript" ->
            NameCollectorVisitSecond(
                "Subscript", node.slice, g, l,
                NameCollectorVisit(node.value, FALSE, g, l, coll, modified))
      [] OTHER -> Visited(node, coll, modified, NoExc)

\* ------------------------------------------------------ reveal_type_wrapper
\* the test of tc_result.var left out: every record counts as nameless
TruthyNever(v) == FALSE

\* `if tc_result.var:`
Truthy(v) == v # None /\ v # ""

Ev(kind, a) == [ev |-> kind, adapter |-> a]
CheckEv(kind, a, ref) == [ev |-> kind, adapter |-> a, ref |-> ref]

Step(exc, table, coll, log) ==
    [exc |-> exc, table |-> table, collected |-> coll, log |-> log]

NoInferredType(a, pos) ==
    TypeCheckerError(<<"No inferred type from ", a>>, pos.file, pos.lineno)

\* the comparison of names left out
NameNeverMismatches(tc_var, var_name) == FALSE

\* `if tc_result.var: if tc_result.var != var_name:`
NameMismatch(tc_var, var_name) == Truthy(tc_var) /\ tc_var # var_name

NameMismatchError(tc_var, var_name, pos) ==
    TypeCheckerError(<<"Variable name should be ", tc_var, ", but got ", var_name>>,
                     pos.file, pos.lineno)

\* the `else` branch left out
BackfillDropped(table, pos, var_name) == table

\* adapter.typechecker_result[pos] = VarType(var_name, tc_result.type)
Backfill(table, pos, var_name) ==
    [table EXCEPT ![pos] = VarType(var_name, table[pos].type)]

\* the error re-raised as it came
Unannotated(a, e) == e

\* e.args = (f'({adapter.id}) ' + e.args[0],) + e.args[1:]
Annotate(a, e) == [e EXCEPT !.msg = <<"(", a, ") ">> \o e.msg]

\* the retry with its outcome dropped
BaseCheckedSwallowed(a, log, r2) == [exc |-> NoExc, log |-> log]

\* the retry against the unsubscripted type: r2 is its outcome
BaseChecked(a, log, r2) ==
    IF IsExc(r2) /\ r2.exc = "TypeCheckError"
    THEN [exc |-> Annotate(a, r2), log |-> log]
    ELSE [exc |-> r2, log |-> log]

\* the except clauses around check_type_internal: r1 is its outcome
FirstChecked(a, var, ref, ref_ast, g, memo_locals, r1) ==
    IF ~IsExc(r1) THEN [exc |-> NoExc, log |-> <<CheckEv("check", a, ref)>>]
    ELSE IF r1.exc = "TypeCheckError"
    THEN [exc |-> Annotate(a, r1), log |-> <<CheckEv("check", a, ref)>>]
    ELSE IF r1.exc # "TypeError" \/ "is not subscriptable" \notin Range(r1.msg)
    THEN [exc |-> r1, log |-> <<CheckEv("check", a, ref)>>]
    ELSE IF ref_ast.kind # "Subscript"
    THEN [exc |-> Exc("AssertionError", <<>>), log |-> <<CheckEv("check", a, ref)>>]
    ELSE BaseChecked(a, <<CheckEv("check", a, ref),
                          CheckEv("check_base", a, ast_unparse(ref_ast.value))>>,
                     check_type_internal(var, ast_unparse(ref_ast.value),
                                         g, memo_locals))

\* the try block around check_type_internal, with its one retry
StructuralCheck(a, var, ref, ref_ast, g, memo_locals) ==
    FirstChecked(a, var, ref, ref_ast, g, memo_locals,
                 check_type_internal(var, ref, g, memo_locals))

Checked(table, coll, log, chk) == Step(chk.exc, table, coll, log \o chk.log)

\* after walker.visit(ref_ast): the reference is rewritten when the walker
\* says so, and the value is checked against it
Walked(a, var, type, ref_ast, g, l, table, coll, log, walker) ==
    IF IsExc(walker.exc)
    THEN Step(walker.exc, table, CollectedAfter(a, coll, walker), log)
    ELSE Checked(table, CollectedAfter(a, coll, walker), log,
                 StructuralCheck(a, var,
                                 IF walker.modified THEN ast_unparse(walker.node)
                                 ELSE type,
                                 IF walker.modified THEN walker.node ELSE ref_ast,
                                 g, DictUnion(l, walker.collected)))

\* after ast.parse(ref.__forward_arg__, mode="eval")
ParsedRef(a, var, type, g, l, table, coll, log, ref_ast) ==
    IF ref_ast = SyntaxError
    THEN Step(Exc("SyntaxError", type), table, coll, log)
    ELSE Walked(a, var, type, ref_ast, g, l, table, coll,
                log \o <<Ev("resolve", a)>>,
                CollectNames(a, ref_ast, g, l, coll))

\* the body of `for adapter in (...)` for one adapter
VerifyAdapter(a, pos, var, var_name, g, l, table, coll) ==
    IF pos \notin DOMAIN table
    THEN Step(NoInferredType(a, pos), table, coll, <<Ev("lookup_miss", a)>>)
    ELSE IF NameMismatch(table[pos].var, var_name)
    THEN Step(NameMismatchError(table[pos].var, var_name, pos), table, coll,
              <<Ev("lookup", a), Ev("name_mismatch", a)>>)
    ELSE IF Truthy(table[pos].var)
    THEN ParsedRef(a, var, table[pos].type, g, l, table, coll,
                   <<Ev("lookup", a), Ev("name_ok", a)>>,
                   ast_parse(table[pos].type))
    ELSE ParsedRef(a, var, table[pos].type, g, l,
                   Backfill(table, pos, var_name), coll,
                   <<Ev("lookup", a), Ev("backfill", a)>>,
                   ast_parse(table[pos].type))

\* the tuple written the other way round
AdapterOrderReversed == <<"mypy", "pyright">>

\* `for adapter in (pyright_adapter, mypy_adapter)`
AdapterOrder == <<"pyright", "mypy">>

\* the adapters a call consults: the enabled ones, in the fixed order
ConsultedAdapters(en) == SelectSeq(AdapterOrder, LAMBDA a : en[a])

Called(result, tables, colls, log) ==
    [result |-> result, tables |-> tables, collected |-> colls, log |-> log]

RECURSIVE VerifyLoop(_, _, _, _, _, _, _, _, _)

\* s is what the loop body did for the adapter at the head of todo
LoopStep(todo, pos, var, var_name, g, l, tables, colls, log, s) ==
    IF IsExc(s.exc)
    THEN Called([kind |-> "raise", exc |-> s.exc],
                [tables EXCEPT ![Head(todo)] = s.table],
                [colls EXCEPT ![Head(todo)] = s.collected], log \o s.log)
    ELSE VerifyLoop(Tail(todo), pos, var, var_name, g, l,
                    [tables EXCEPT ![Head(todo)] = s.table],
                    [colls EXCEPT ![Head(todo)] = s.collected], log \o s.log)

VerifyLoop(todo, pos, var, var_name, g, l, tables, colls, log) ==
    IF todo = <<>>
    THEN Called([kind |-> "return", value |-> var], tables, colls, log)
    ELSE LoopStep(todo, pos, var, var_name, g, l, tables, colls, log,
                  VerifyAdapter(Head(todo), pos, var, var_name, g, l,
                                tables[Head(todo)], colls[Head(todo)]))

\* reveal_type_wrapper(var), called from `filename`:`lineno` on a line whose
\* reveal_type() argument reads `var_name`
reveal_type_wrapper(var, var_name, filename, lineno, en, tables, colls) ==
    VerifyLoop(ConsultedAdapters(en), FilePos(PathName(filename), lineno),
               var, var_name, CallerGlobals, CallerLocals, tables, colls, <<>>)

\* ------------------------------------------------------- checker diagnostics
\* the collected test file and the lines of its reveal_type() calls
TestPaths == {<<"tests", "test_a.py">>}
RevealLines == {3, 7}
VarNames == {"x", "y"}

\* revealed types, as each checker prints them
PyrightTypes == {<<"int">>, <<"Elem", "[", "int", "]">>,
                 <<"Elem", "[", "Elem", "[", "int", "]", "]">>}
MypyTypes == {<<"builtins", ".", "int", "?">>,
              <<"lib", ".", "Elem", "[", "builtins", ".", "int", "]">>,
              <<"stub", ".", "Nope">>}

\* diag["message"]: 'Type of "<var>" is "<type>"', 'Revealed type is "<type>"',
\* or any other text
TypeOfMsg(var, type) == [form |-> "TypeOf", var |-> var, type |-> type]
RevealedMsg(type) == [form |-> "Revealed", var |-> None, type |-> type]
OtherMsg == [form |-> "Other", var |-> None, type |-> <<"incompatible types">>]

MsgText(m) ==
    CASE m.form = "TypeOf" -> <<"Type of ", m.var, " is ">> \o m.type
      [] m.form = "Revealed" -> <<"Revealed type is ">> \o m.type
      [] OTHER -> m.type

\* _type_mesg_re.match(diag["message"]) of each adapter
PyrightMatch(m) == m.form = "TypeOf"
MypyMatch(m) == m.form = "Revealed"

Diag(file, line, severity, message) ==
    [json |-> TRUE, file |-> file, line |-> line, severity |-> severity,
     message |-> message]
\* a line of mypy's stdout that is no JSON object
NonJsonLine ==
    [json |-> FALSE, file |-> <<>>, line |-> 0, severity |-> "", message |-> OtherMsg]

\* pyright's generalDiagnostics; `line` is range.start.line, 0-based
PyrightDiags ==
    {Diag(f, ln - 1, "information", TypeOfMsg(v, t)) :
        f \in TestPaths, ln \in RevealLines, v \in VarNames, t \in PyrightTypes}
    \cup {Diag(f, ln - 1, sev, OtherMsg) :
        f \in TestPaths, ln \in RevealLines, sev \in {"information", "warning", "error"}}

\* mypy's --output=json lines; `line` is 1-based
MypyDiags ==
    {Diag(f, ln, "note", RevealedMsg(t)) :
        f \in TestPaths, ln \in RevealLines, t \in MypyTypes}
    \cup {Diag(f, ln, sev, OtherMsg) :
        f \in TestPaths, ln \in RevealLines, sev \in {"note", "warning", "error"}}

ReturnCodes == {0, 1}
\* the checker's error stream: empty, or some text
StderrTexts == {<<>>, <<"usage: bad option">>}
\* shutil.which(): pyright itself, npx as the fallback runner, or neither
Which == {"pyright", "npx", "none"}

EmptyTable == [k \in {} |-> VarType(None, <<>>)]

Ran(exc, table) == [exc |-> exc, table |-> table]

\* ------------------------------------------- _PyrightAdapter.run_typechecker_on
RECURSIVE PyrightFirstError(_)
PyrightFirstError(stream) ==
    IF stream = <<>> THEN NoExc
    ELSE IF Head(stream).severity # "error" THEN PyrightFirstError(Tail(stream))
    ELSE TypeCheckerError(MsgText(Head(stream).message),
                          PathName(Head(stream).file), Head(stream).line + 1)

RECURSIVE PyrightRecord(_, _)
PyrightRecord(stream, table) ==
    IF stream = <<>> THEN table
    ELSE LET diag == Head(stream)
             pos == FilePos(PathName(diag.file), diag.line + 1)
         IN  IF diag.severity # "information" \/ ~PyrightMatch(diag.message)
             THEN PyrightRecord(Tail(stream), table)
             ELSE PyrightRecord(Tail(stream),
                    (pos :> VarType(diag.message.var, diag.message.type)) @@ table)

\* the scan made whatever the exit code
PyrightScansAlways(returncode) == TRUE

\* `if proc.returncode:`
PyrightScansErrors(returncode) == returncode # 0

\* the recording loop run ahead of the scan for errors
PyrightReportRecordsFirst(stream, returncode, table, first_error) ==
    IF PyrightScansErrors(returncode) /\ IsExc(first_error)
    THEN Ran(first_error, PyrightRecord(stream, table))
    ELSE Ran(NoExc, PyrightRecord(stream, table))

\* after json.loads(proc.stdout): first_error is what the scan for errors
\* would raise
PyrightReport(stream, returncode, table, first_error) ==
    IF PyrightScansErrors(returncode) /\ IsExc(first_error)
    THEN Ran(first_error, table)
    ELSE Ran(NoExc, PyrightRecord(stream, table))

PyrightRun(which, stream, returncode, stderr, table) ==
    IF which = "none"
    THEN Ran(Exc("FileNotFoundError", <<"Pyright is required to run test suite">>),
             table)
    ELSE IF Len(stderr) # 0
    THEN Ran(TypeCheckerError(stderr, None, None), table)
    ELSE PyrightReport(stream, returncode, table, PyrightFirstError(stream))

\* ---------------------------------------------- _MypyAdapter.run_typechecker_on
\* m["type"].translate({ord(c): None for c in "*?="})
Sanitize(type) == SelectSeq(type, LAMBDA t : t \notin Decoration)

MypyDiagError(diag, returncode) ==
    TypeCheckerError(<<"Mypy ", diag.severity, " with exit code ",
                       ToString(returncode), ": ">> \o MsgText(diag.message),
                     diag.file, diag.line)

RECURSIVE MypyLoop(_, _, _)
MypyLoop(stream, returncode, table) ==
    IF stream = <<>> THEN Ran(NoExc, table)
    ELSE LET diag == Head(stream)
             pos == FilePos(PathName(diag.file), diag.line)
         IN  IF diag.severity # "note"
             THEN Ran(MypyDiagError(diag, returncode), table)
             ELSE IF ~MypyMatch(diag.message)
             THEN MypyLoop(Tail(stream), returncode, table)
             ELSE MypyLoop(Tail(stream), returncode,
                    (pos :> VarType(None, Sanitize(diag.message.type))) @@ table)

MypyRun(stream, returncode, stderr, table) ==
    IF Len(stderr) # 0
    THEN Ran(TypeCheckerError(stderr, None, None), table)
    ELSE MypyLoop(stream, returncode, table)

\* --------------------------- run_typechecker_on of _testutils/mypy_adapter.py
RECURSIVE LegacyMypyRun(_, _)
LegacyMypyRun(stream, table) ==
    IF stream = <<>> THEN Ran(NoExc, table)
    ELSE LET diag == Head(stream)
             pos == FilePos(diag.file, diag.line)
         IN  IF ~diag.json THEN LegacyMypyRun(Tail(stream), table)
             ELSE IF diag.severity # "note"
             THEN Ran(TypeCheckerError(<<"Mypy ", diag.severity, " :'">>
                                          \o MsgText(diag.message) \o <<"'">>,
                                       diag.file, diag.line), table)
             ELSE IF ~MypyMatch(diag.message)
             THEN LegacyMypyRun(Tail(stream), table)
             ELSE LegacyMypyRun(Tail(stream),
                    (pos :> VarType(None, Sanitize(diag.message.type))) @@ table)

\* ------------------------------------------------- the test module's names
\* a name is its leading marker ("__", "@py") followed by the rest, or the
\* bare identifier
StartsWith(name, prefix) == name[1] = prefix

Fn(name, module) == [kind |-> "function", name |-> name, module |-> module]
Mod(name) == [kind |-> "module", name |-> name, module |-> name]
\* typing.reveal_type, and the one typing_extensions defines on its own
TypingRevealType == Fn("reveal_type", "typing")
ExtRevealType == Fn("reveal_type", "typing_extensions")
\* the replacement: reveal_type_wrapper (plugin.py), revealtype_injector (hooks.py)
Injector == Fn("reveal_type_wrapper", "pytest_revealtype_injector")
ModuleObjects ==
    {TypingRevealType, ExtRevealType, Injector,
     Fn("reveal_type", "test_a"), Fn("cast", "typing"),
     Mod("typing"), Mod("typing_extensions"), Mod("os"),
     [kind |-> "object", name |-> "value", module |-> "builtins"]}

TypingModules == {"typing", "typing_extensions"}

\* dir(pyfuncitem.module), sorted: the name pytest's assertion rewriting
\* binds, a dunder name, a name with two leading underscores only, and
\* three plain names
DirNames == << <<"@py", "_builtins">>, <<"__", "rt", "__">>, <<"__", "t">>,
               <<"reveal_type">>, <<"rt">>, <<"t">> >>

\* `name.startswith("__") or name.startswith("@py")`
Skipped(name) == StartsWith(name, "__") \/ StartsWith(name, "@py")

\* the test of item.__module__ left out
IsNamedRevealType(item) == item.kind = "function" /\ item.name = "reveal_type"

\* inspect.isfunction(item) and item.__name__ == "reveal_type" and
\* item.__module__ in {"typing", "typing_extensions"}
IsRevealType(item) ==
    /\ item.kind = "function"
    /\ item.name = "reveal_type"
    /\ item.module \in TypingModules

\* inspect.ismodule(item) and item.__name__ in {"typing", "typing_extensions"}
IsTypingModule(item) == item.kind = "module" /\ item.name \in TypingModules

Patched(ns, rt) == [ns |-> ns, rt |-> rt]

\* the loop of pytest_pyfunc_call over dir(module)
RECURSIVE PatchLoop(_, _, _)
PatchLoop(names, ns, rt) ==
    IF names = <<>> THEN Patched(ns, rt)
    ELSE IF Skipped(Head(names)) THEN PatchLoop(Tail(names), ns, rt)
    ELSE IF IsRevealType(ns[Head(names)])
    THEN PatchLoop(Tail(names), [ns EXCEPT ![Head(names)] = Injector], rt)
    ELSE IF IsTypingModule(ns[Head(names)])
    THEN PatchLoop(Tail(names), ns, [rt EXCEPT ![ns[Head(names)].name] = Injector])
    ELSE PatchLoop(Tail(names), ns, rt)

\* ------------------------------------------------------------------- state
VARIABLES
    phase,               \* where the pytest session (or the single run) stands
    enabled,             \* adapter.enabled
    pending,             \* adapters pytest_collection_finish has yet to visit
    typechecker_result,  \* adapter.typechecker_result: Position -> VarType
    collected,           \* the name collectors' dict, as it outlives a call
    runs,                \* run_typechecker_on invocations, per adapter
    error,               \* the exception that ended collection, if any
    last,                \* the latest reveal_type() call and its outcome
    run,                 \* the latest checker run, observed on its own
    module_ns,           \* the test module's bindings: name -> object
    module_rt,           \* the reveal_type attribute of typing, typing_extensions
    hooked,              \* times pytest_pyfunc_call has run on the test module
    resolved             \* the latest walk of a name collector, observed on its own

patch_vars == <<module_ns, module_rt, hooked>>
session_vars == <<phase, enabled, pending, typechecker_result, collected, runs,
                  error, last, run>>
vars == <<session_vars, patch_vars, resolved>>

NoCall == [called |-> FALSE]
NoRun == [ran |-> FALSE]
NoResolution == [ran |-> FALSE]

InitCommon ==
    /\ enabled = [a \in Adapters |-> TRUE]
    /\ pending = <<>>
    /\ typechecker_result = [a \in Adapters |-> EmptyTable]
    /\ collected = [a \in Adapters |->
                      IF a = "mypy" THEN MypyCollectedSeed ELSE PyrightCollectedSeed]
    /\ runs = [a \in Adapters |-> 0]
    /\ error = NoExc
    /\ last = NoCall
    /\ run = NoRun
    /\ resolved = NoResolution

\* a test module that imported reveal_type from typing, not yet hooked
InitPatchIdle ==
    /\ module_ns = [n \in Range(DirNames) |->
                      IF n = <<"@py", "_builtins">> THEN Mod("os")
                      ELSE TypingRevealType]
    /\ module_rt = [m \in TypingModules |-> Fn("reveal_type", m)]
    /\ hooked = 0

Init == phase = "start" /\ InitCommon /\ InitPatchIdle

\* --------------------------------------------------------------- the hooks
\* hooks.py pytest_configure: --revealtype-disable-adapter names one adapter
\* or is left unset
pytest_configure(disable) ==
    /\ phase = "start"
    /\ enabled' = [a \in Adapters |-> enabled[a] /\ disable # a]
    /\ phase' = "configured"
    /\ UNCHANGED <<pending, typechecker_result, collected, runs, error, last, run>>
    /\ UNCHANGED <<patch_vars, resolved>>

\* a loop that comes back to its first adapter
SetOrdersRepeating == {<<"pyright", "mypy", "pyright">>}

\* the orders in which `for adapter in {pyright_.adapter, mypy_.adapter}` can
\* visit the set
SetOrders == {<<"pyright", "mypy">>, <<"mypy", "pyright">>}

\* hooks.py pytest_collection_finish enters its loop
HooksCollectionFinish ==
    /\ phase = "configured"
    /\ pending' \in SetOrders
    /\ phase' = "collecting"
    /\ UNCHANGED <<enabled, typechecker_result, collected, runs, error, last, run>>
    /\ UNCHANGED <<patch_vars, resolved>>

\* plugin.py pytest_collection_finish enters its loop: no option disables an
\* adapter there, and the adapters come as a tuple
PluginCollectionFinish ==
    /\ phase = "start"
    /\ pending' = AdapterOrder
    /\ phase' = "collecting"
    /\ UNCHANGED <<enabled, typechecker_result, collected, runs, error, last, run>>
    /\ UNCHANGED <<patch_vars, resolved>>

\* the loop without its test of adapter.enabled
RunsAlways(a, en) == TRUE

\* `if adapter.enabled:`
RunsChecker(a, en) == en[a]

\* what one adapter's run does with the checker's output
RunAdapter(a, which, stream, returncode, stderr, table) ==
    IF a = "pyright" THEN PyrightRun(which, stream, returncode, stderr, table)
    ELSE MypyRun(stream, returncode, stderr, table)

AdapterDiags(a) == IF a = "pyright" THEN PyrightDiags ELSE MypyDiags

\* the loop goes on with what the run r left, or the exception ends the
\* session before any test
CheckerRan(a, r) ==
    /\ typechecker_result' = [typechecker_result EXCEPT ![a] = r.table]
    /\ runs' = [runs EXCEPT ![a] = @ + 1]
    /\ error' = r.exc
    /\ pending' = Tail(pending)
    /\ phase' = IF IsExc(r.exc) THEN "aborted"
                ELSE IF Tail(pending) = <<>> THEN "testing"
                ELSE "collecting"

\* one pass of the loop for an enabled adapter: the checker runs
RunTypechecker ==
    /\ phase = "collecting"
    /\ pending # <<>>
    /\ RunsChecker(Head(pending), enabled)
    /\ LET a == Head(pending)
       IN  \E stream \in SeqsUpTo(AdapterDiags(a), MaxDiags),
              returncode \in ReturnCodes, stderr \in StderrTexts, which \in Which :
             CheckerRan(a, RunAdapter(a, which, stream, returncode, stderr,
                                      typechecker_result[a]))
    /\ UNCHANGED <<enabled, collected, last, run>>
    /\ UNCHANGED <<patch_vars, resolved>>

\* one pass of the loop for a disabled adapter
SkipDisabled ==
    /\ phase = "collecting"
    /\ pending # <<>>
    /\ ~RunsChecker(Head(pending), enabled)
    /\ pending' = Tail(pending)
    /\ phase' = IF Tail(pending) = <<>> THEN "testing" ELSE "collecting"
    /\ UNCHANGED <<enabled, typechecker_result, collected, runs, error, last, run>>
    /\ UNCHANGED <<patch_vars, resolved>>

\* the call ends as r says; the tables and the collectors' dicts keep what
\* it wrote
WrapperCalled(var, var_name, pos, r) ==
    /\ typechecker_result' = r.tables
    /\ collected' = r.collected
    /\ last' = [called |-> TRUE, pos |-> pos, var |-> var, var_name |-> var_name,
                result |-> r.result, log |-> r.log, pre |-> typechecker_result]

\* a test body calls the injected reveal_type()
RevealTypeCall ==
    /\ phase = "testing"
    /\ \E var \in Values, var_name \in VarNames,
          filename \in TestPaths, lineno \in RevealLines :
         WrapperCalled(var, var_name, FilePos(PathName(filename), lineno),
                       reveal_type_wrapper(var, var_name, filename, lineno, enabled,
                                           typechecker_result, collected))
    /\ UNCHANGED <<phase, enabled, pending, runs, error, run>>
    /\ UNCHANGED <<patch_vars, resolved>>

Next ==
    \/ \E disable \in Adapters \cup {None} : pytest_configure(disable)
    \/ HooksCollectionFinish
    \/ PluginCollectionFinish
    \/ RunTypechecker
    \/ SkipDisabled
    \/ RevealTypeCall

Spec == Init /\ [][Next]_vars

\* ------------------------------------------- one checker run, on its own
InitRun == phase = "unit" /\ InitCommon /\ InitPatchIdle

Observed(flavour, which, stream, returncode, stderr, r) ==
    [ran |-> TRUE, flavour |-> flavour, which |-> which, stream |-> stream,
     returncode |-> returncode, stderr |-> stderr, exc |-> r.exc,
     before |-> EmptyTable, after |-> r.table]

RunObserved(a, flavour, which, stream, returncode, stderr, r) ==
    /\ typechecker_result' = [typechecker_result EXCEPT ![a] = r.table]
    /\ run' = Observed(flavour, which, stream, returncode, stderr, r)

RunPyright ==
    /\ phase = "unit"
    /\ \E stream \in SeqsUpTo(PyrightDiags, MaxDiags),
          returncode \in ReturnCodes, stderr \in StderrTexts, which \in Which :
         RunObserved("pyright", "pyright", which, stream, returncode, stderr,
                     PyrightRun(which, stream, returncode, stderr,
                             typechecker_result["pyright"]))
    /\ phase' = "ran"
    /\ UNCHANGED <<enabled, pending, collected, runs, error, last>>
    /\ UNCHANGED <<patch_vars, resolved>>

RunMypy ==
    /\ phase = "unit"
    /\ \E stream \in SeqsUpTo(MypyDiags, MaxDiags),
          returncode \in ReturnCodes, stderr \in StderrTexts :
         RunObserved("mypy", "mypy", "mypy", stream, returncode, stderr,
                     MypyRun(stream, returncode, stderr, typechecker_result["mypy"]))
    /\ phase' = "ran"
    /\ UNCHANGED <<enabled, pending, collected, runs, error, last>>
    /\ UNCHANGED <<patch_vars, resolved>>

RunLegacyMypy ==
    /\ phase = "unit"
    /\ \E stream \in SeqsUpTo(MypyDiags \cup {NonJsonLine}, MaxDiags),
          returncode \in ReturnCodes :
         RunObserved("mypy", "mypy_legacy", "mypy", stream, returncode, <<>>,
                     LegacyMypyRun(stream, typechecker_result["mypy"]))
    /\ phase' = "ran"
    /\ UNCHANGED <<enabled, pending, collected, runs, error, last>>
    /\ UNCHANGED <<patch_vars, resolved>>

NextRun == RunPyright \/ RunMypy \/ RunLegacyMypy

SpecRun == InitRun /\ [][NextRun]_vars

\* -------------------------------------------- pytest_pyfunc_call, on its own
\* any bindings of the plain and the underscored names; "@py_builtins" is
\* bound by pytest alone, to a module
InitPatch ==
    /\ phase = "patch"
    /\ InitCommon
    /\ module_ns \in [Range(DirNames) -> ModuleObjects]
    /\ module_ns[<<"@py", "_builtins">>] = Mod("os")
    /\ module_rt = [m \in TypingModules |-> Fn("reveal_type", m)]
    /\ hooked = 0

HookRan(r) ==
    /\ module_ns' = r.ns
    /\ module_rt' = r.rt
    /\ hooked' = hooked + 1

\* pytest_pyfunc_call(pyfuncitem), before each test function of the module
pytest_pyfunc_call ==
    /\ phase = "patch"
    /\ hooked < MaxHookRuns
    /\ HookRan(PatchLoop(DirNames, module_ns, module_rt))
    /\ UNCHANGED <<session_vars, resolved>>

NextPatch == pytest_pyfunc_call

SpecPatch == InitPatch /\ [][NextPatch]_vars

\* ----------------------------------------- one name collector, on its own
\* types mypy reveals: plain and dotted names, a subscript, a name typing
\* supplies, names from a stub-only module, classes of a function's scope
ResolveTypes ==
    {<<"Elem">>, <<"Any">>, <<"builtins", ".", "int">>, <<"lib", ".", "Elem">>,
     <<"lib", ".", "Elem", "[", "builtins", ".", "int", "]">>,
     <<"stub", ".", "Elem">>, <<"stub", ".", "Any">>, <<"stub", ".", "Nope">>,
     <<"lib", ".", "Local", "@", "97">>, <<"lib", ".", "Elem", "@", "97">>}

\* the caller's module: `from lib import Elem`, with or without `import lib`
ResolveGlobals == {CallerGlobals, (<<"lib">> :> Module("lib")) @@ CallerGlobals}
\* the caller's function: outside any class definition, or after `class Local`
ResolveLocals == {CallerLocals, [k \in {<<"Local">>} |-> Class("Local")]}

InitResolve == phase = "resolve" /\ InitCommon /\ InitPatchIdle

\* `if walker.modified: ref = ForwardRef(ast.unparse(ref_ast))`
RefChecked(type, walker) ==
    IF walker.modified THEN ast_unparse(walker.node) ELSE type

\* scope is the collector's dict as the walk found it
Resolution(flavour, type, g, l, scope, walker) ==
    [ran |-> TRUE, flavour |-> flavour, type |-> type, globalns |-> g,
     localns |-> l, scope |-> scope, exc |-> walker.exc,
     modified |-> walker.modified, node |-> walker.node,
     collected |-> walker.collected, ref |-> RefChecked(type, walker)]

\* a dict of the walker's own, dropped with it
LegacyResolvedPerCall(type, g, l, walker) ==
    /\ resolved' = Resolution("mypy_legacy", type, g, l, collected["mypy"], walker)
    /\ collected' = collected

LegacyResolved(type, g, l, walker) ==
    /\ resolved' = Resolution("mypy_legacy", type, g, l, collected["mypy"], walker)
    /\ collected' = [collected EXCEPT !["mypy"] = walker.collected]

\* NameCollector(globalns, localns).visit(ref_ast) of
\* _testutils/mypy_adapter.py: the class's one dict serves every walk
ResolveLegacy ==
    /\ phase = "resolve"
    /\ \E type \in ResolveTypes, g \in ResolveGlobals, l \in ResolveLocals :
          LegacyResolved(type, g, l,
                         MypyVisit(ast_parse(type), FALSE, g, l, collected["mypy"],
                                   FALSE))
    /\ UNCHANGED <<phase, enabled, pending, typechecker_result, runs, error, last,
                   run>>
    /\ UNCHANGED patch_vars

\* create_collector(globalns, localns).visit(ref_ast) of adapter/mypy_.py
ResolveMypy ==
    /\ phase = "resolve"
    /\ \E type \in ResolveTypes, g \in ResolveGlobals, l \in ResolveLocals :
          resolved' = Resolution("mypy", type, g, l, NameCollectorBaseSeed,
                                 NameCollectorVisit(ast_parse(type), FALSE, g, l,
                                                    NameCollectorBaseSeed, FALSE))
    /\ UNCHANGED session_vars
    /\ UNCHANGED patch_vars

NextResolve == ResolveLegacy \/ ResolveMypy

SpecResolve == InitResolve /\ [][NextResolve]_vars

\* =================================================================== claims
\* ---------------------------------------------- what a call is measured by
Returned == last.called /\ last.result.kind = "return"
Raised == last.called /\ last.result.kind = "raise"

EventsOf(a) == SelectSeq(last.log, LAMBDA e : e.adapter = a)
HasEv(kind, a) == \E i \in DOMAIN last.log :
                      last.log[i].ev = kind /\ last.log[i].adapter = a
LastEv == last.log[Len(last.log)]

\* the class a printed type names: the last identifier of its dotted name,
\* before any "[...]"
RECURSIVE DottedEnd(_, _)
DottedEnd(type, i) ==
    IF i > Len(type) \/ type[i] = "[" THEN i - 1 ELSE DottedEnd(type, i + 1)
BaseClassName(type) == type[DottedEnd(type, 1)]

\* the record the call found for adapter a, as the table stood before it
HasRecord(a) == last.pos \in DOMAIN last.pre[a]
RecordOf(a) == last.pre[a][last.pos]
NameConsistent(a) == RecordOf(a).var \in {None, ""} \/ RecordOf(a).var = last.var_name
TypeMatchesValue(a) == BaseClassName(RecordOf(a).type) = last.var.cls
RecordAgrees(a) == HasRecord(a) /\ NameConsistent(a) /\ TypeMatchesValue(a)

\* the adapters consulted before a, in the order pyright then mypy
Earlier(a) == IF a = "mypy" THEN {b \in {"pyright"} : enabled[b]} ELSE {}
\* the call gets as far as adapter a
Reached(a) == last.called /\ enabled[a] /\ \A b \in Earlier(a) : RecordAgrees(b)

\* C1: a call of reveal_type_wrapper returns exactly when every adapter it
\* consults has a record at the call position whose name is consistent with
\* the recovered expression and whose type the value conforms to; then each
\* of them was looked up and checked and the value returned is the argument;
\* in every other case the call raises and returns no value.
C1_AllOrNothing ==
    last.called =>
        /\ Returned <=> \A a \in Adapters : enabled[a] => RecordAgrees(a)
        /\ Returned => /\ last.result.value = last.var
                       /\ "exc" \notin DOMAIN last.result
                       /\ \A a \in Adapters : enabled[a] =>
                             HasEv("lookup", a) /\ HasEv("check", a)
        /\ Raised <=> ~Returned
        /\ Raised => "value" \notin DOMAIN last.result /\ IsExc(last.result.exc)

\* both adapters consulted, the second through the retry against the base type
C1_Witness ==
    /\ Returned
    /\ HasEv("check", "pyright")
    /\ HasEv("check_base", "mypy")
    /\ last.result.value = ElemVal

\* C2: when the first adapter, in the order pyright then mypy, whose table
\* lacks the call position is a, the call raises TypeCheckerError with the
\* message 'No inferred type from <a>', the position's file (a basename) and
\* line; a is the last adapter consulted.
C2_NoInferredType ==
    \A a \in Adapters :
        Reached(a) /\ ~HasRecord(a) =>
            /\ Raised
            /\ last.result.exc =
                   [exc |-> "TypeCheckerError", msg |-> <<"No inferred type from ", a>>,
                    file |-> last.pos.file, lineno |-> last.pos.lineno]
            /\ Len(last.pos.file) = 1
            /\ LastEv = Ev("lookup_miss", a)
            /\ \A b \in Adapters : a \in Earlier(b) => EventsOf(b) = <<>>

\* pyright's record agrees, mypy has none
C2_Witness ==
    /\ Raised
    /\ HasEv("check", "pyright")
    /\ last.result.exc.exc = "TypeCheckerError"
    /\ last.result.exc.msg = <<"No inferred type from ", "mypy">>

\* ------------------------------------------ what a checker run is measured by
\* the severity under which each checker reports a revealed type
InfoSeverity(flavour) == IF flavour = "pyright" THEN "information" ELSE "note"

\* a warning or error diagnostic of the stream
NonInfo(d) == d.json /\ d.severity # InfoSeverity(run.flavour)
IsError(d) == d.json /\ d.severity = "error"

Indices(P(_)) == {i \in DOMAIN run.stream : P(run.stream[i])}
First(P(_)) == CHOOSE i \in Indices(P) : \A j \in Indices(P) : i <= j

Contains(seq, sub) ==
    \E k \in 1..(Len(seq) - Len(sub) + 1) : SubSeq(seq, k, k + Len(sub) - 1) = sub

\* the exception names diagnostic d: its message within the text, its file
\* (or the file's basename), its line (pyright's counted from 1)
Carries(e, d) ==
    /\ e.exc = "TypeCheckerError"
    /\ Contains(e.msg, MsgText(d.message))
    /\ e.file \in {d.file, PathName(d.file)}
    /\ e.lineno = IF run.flavour = "pyright" THEN d.line + 1 ELSE d.line

\* the checker was found and wrote nothing to its error stream
RunReport == run.ran /\ run.which # "none" /\ run.stderr = <<>>

\* C3 as stated: every run whose stream holds a warning or error diagnostic
\* raises a TypeCheckerError carrying such a diagnostic's message, file and
\* line, whatever the exit code.
C3_Original ==
    RunReport /\ Indices(NonInfo) # {} =>
        /\ IsExc(run.exc)
        /\ \E i \in Indices(NonInfo) : Carries(run.exc, run.stream[i])

\* C3 (amended): a mypy run raises a TypeCheckerError carrying the message,
\* file and line of the first diagnostic that is no note, and raises nothing
\* when there is none; a pyright run raises only when the exit code is
\* nonzero and the stream holds an error diagnostic, and then for the first
\* of them; pyright's warnings, and its errors under exit code 0, are
\* skipped without raising.
C3_NonInfoDiagnostics ==
    RunReport =>
        IF run.flavour = "pyright"
        THEN IF run.returncode # 0 /\ Indices(IsError) # {}
             THEN /\ IsExc(run.exc)
                  /\ Carries(run.exc, run.stream[First(IsError)])
                  /\ run.exc.msg = MsgText(run.stream[First(IsError)].message)
                  /\ Len(run.exc.file) = 1
             ELSE run.exc = NoExc
        ELSE IF Indices(NonInfo) # {}
             THEN /\ IsExc(run.exc)
                  /\ Carries(run.exc, run.stream[First(NonInfo)])
                  /\ run.exc.msg[2] = run.stream[First(NonInfo)].severity
                  /\ run.exc.file = run.stream[First(NonInfo)].file
             ELSE run.exc = NoExc

\* a pyright run that reported a warning and an error under exit code 0
C3_Witness ==
    /\ RunReport
    /\ run.flavour = "pyright"
    /\ run.returncode = 0
    /\ \E i, j \in DOMAIN run.stream :
          run.stream[i].severity = "warning" /\ run.stream[j].severity = "error"
    /\ run.exc = NoExc

\* the positions and records of the reveal notes that precede stream[n]
NotesBefore(n) ==
    {j \in 1..(n - 1) : /\ run.stream[j].json
                        /\ run.stream[j].severity = "note"
                        /\ MypyMatch(run.stream[j].message)}
NotePos(d) ==
    FilePos(IF run.flavour = "mypy_legacy" THEN d.file ELSE PathName(d.file), d.line)
LastNoteAt(n, pos) ==
    CHOOSE j \in NotesBefore(n) :
        /\ NotePos(run.stream[j]) = pos
        /\ \A k \in NotesBefore(n) : NotePos(run.stream[k]) = pos => k <= j

\* C4 as stated: a run whose stream holds an error diagnostic, at any
\* position, raises and leaves the table without any entry added by the run.
C4_Original ==
    RunReport /\ Indices(IsError) # {} =>
        IsExc(run.exc) /\ run.after = run.before

\* C4 (amended): when the stream holds an error diagnostic, a pyright run
\* with a nonzero exit code raises and adds no entry; a mypy run raises at
\* the first diagnostic that is no note, and the table keeps exactly the
\* entries of the reveal notes that precede it in the stream.
C4_ErrorDiagnostic ==
    RunReport /\ Indices(IsError) # {} =>
        IF run.flavour = "pyright"
        THEN run.returncode # 0 =>
                 /\ IsExc(run.exc) /\ run.exc.exc = "TypeCheckerError"
                 /\ run.after = run.before
        ELSE /\ IsExc(run.exc) /\ run.exc.exc = "TypeCheckerError"
             /\ DOMAIN run.after =
                    DOMAIN run.before \cup
                    {NotePos(run.stream[j]) : j \in NotesBefore(First(NonInfo))}
             /\ \A pos \in DOMAIN run.after \ DOMAIN run.before :
                    run.after[pos] =
                        [var |-> None,
                         type |-> SelectSeq(
                             run.stream[LastNoteAt(First(NonInfo), pos)].message.type,
                             LAMBDA t : t \notin {"*", "?", "="})]

\* a mypy run that recorded a reveal note and then met an error
C4_Witness ==
    /\ RunReport
    /\ run.flavour = "mypy"
    /\ Indices(IsError) # {}
    /\ IsExc(run.exc)
    /\ run.after # run.before

\* ------------------------------------------------- the session, continued
\* the classes of the values a test can hand to reveal_type()
ValueClasses == {v.cls : v \in Values}

\* C5: when the value does not conform to the type adapter a recorded, in
\* the first check or in the retry against the unsubscripted type, the call
\* raises typeguard's TypeCheckError with '(<a>) ' put before its message;
\* and every TypeCheckError a call raises carries the id of the adapter
\* whose record was being checked.
C5_MismatchNamesAdapter ==
    last.called =>
        /\ \A a \in Adapters :
              /\ Reached(a) /\ HasRecord(a) /\ NameConsistent(a)
              /\ BaseClassName(RecordOf(a).type) \in ValueClasses
              /\ ~TypeMatchesValue(a)
              => /\ Raised
                 /\ last.result.exc.exc = "TypeCheckError"
                 /\ SubSeq(last.result.exc.msg, 1, 3) = <<"(", a, ") ">>
                 /\ last.result.exc.msg[4] = last.var.cls
                 /\ LastEv.adapter = a
        /\ Raised /\ last.result.exc.exc = "TypeCheckError" =>
              /\ LastEv.ev \in {"check", "check_base"}
              /\ SubSeq(last.result.exc.msg, 1, 3) = <<"(", LastEv.adapter, ") ">>
              /\ Reached(LastEv.adapter)
              /\ ~TypeMatchesValue(LastEv.adapter)

\* mypy's record fails in the retry, after pyright's passed
C5_Witness ==
    /\ Raised
    /\ last.result.exc.exc = "TypeCheckError"
    /\ LastEv.ev = "check_base"
    /\ LastEv.adapter = "mypy"
    /\ SubSeq(last.result.exc.msg, 1, 3) = <<"(", "mypy", ") ">>

\* C6: when the record adapter a found at the position carries a name and
\* the name differs from the recovered expression, the call raises
\* TypeCheckerError('Variable name should be ..., but got ...') with the
\* position's file and line; for a no name is resolved, nothing is checked,
\* and its table is left as it was.
C6_NameMismatch ==
    \A a \in Adapters :
        /\ Reached(a) /\ HasRecord(a)
        /\ RecordOf(a).var \notin {None, ""}
        /\ RecordOf(a).var # last.var_name
        => /\ Raised
           /\ last.result.exc =
                  [exc |-> "TypeCheckerError",
                   msg |-> <<"Variable name should be ", RecordOf(a).var,
                             ", but got ", last.var_name>>,
                   file |-> last.pos.file, lineno |-> last.pos.lineno]
           /\ \A k \in {"resolve", "check", "check_base", "backfill"} : ~HasEv(k, a)
           /\ LastEv.adapter = a
           /\ typechecker_result[a] = last.pre[a]

\* pyright recorded another name for this line
C6_Witness ==
    /\ Raised
    /\ HasRecord("pyright")
    /\ RecordOf("pyright").var \in VarNames \ {last.var_name}
    /\ last.result.exc.exc = "TypeCheckerError"
    /\ last.result.exc.msg[1] = "Variable name should be "

\* C7: when the record adapter a found at the position has no name, the call
\* does not fail on the name for a: whatever its outcome, a's entry at the
\* position afterwards carries the recovered name and the same type. Until a
\* call fills it in, no record of mypy's table has a name.
C7_Backfill ==
    /\ \A a \in Adapters :
          Reached(a) /\ HasRecord(a) /\ RecordOf(a).var \in {None, ""} =>
              /\ typechecker_result[a][last.pos] =
                     [var |-> last.var_name, type |-> RecordOf(a).type]
              /\ \A pos \in DOMAIN last.pre[a] \ {last.pos} :
                     typechecker_result[a][pos] = last.pre[a][pos]
              /\ HasEv("backfill", a) /\ ~HasEv("name_mismatch", a)
              /\ Raised /\ LastEv.adapter = a =>
                     last.result.exc.msg[1] # "Variable name should be "
    /\ ~last.called =>
          \A pos \in DOMAIN typechecker_result["mypy"] :
              typechecker_result["mypy"][pos].var = None

\* pyright's record names the variable, mypy's does not
C7_Witness ==
    /\ Returned
    /\ HasRecord("pyright") /\ HasRecord("mypy")
    /\ RecordOf("pyright").var = last.var_name
    /\ RecordOf("mypy").var = None
    /\ typechecker_result["mypy"][last.pos].var = last.var_name

OnlyBackfill(a) ==
    typechecker_result'[a] # typechecker_result[a] =>
        /\ last'.called
        /\ DOMAIN typechecker_result'[a] = DOMAIN typechecker_result[a]
        /\ last'.pos \in DOMAIN typechecker_result[a]
        /\ \A pos \in DOMAIN typechecker_result[a] \ {last'.pos} :
               typechecker_result'[a][pos] = typechecker_result[a][pos]
        /\ typechecker_result[a][last'.pos].var = None
        /\ typechecker_result'[a][last'.pos] =
               [var |-> last'.var_name, type |-> typechecker_result[a][last'.pos].type]

\* C9: a checker runs only during collection finish, before any test body,
\* and at most once per adapter; when the tests start every enabled adapter
\* has run exactly once and no disabled one has; from then on no run happens
\* and a table changes only by the name backfill of a call.
C9_RunOnce ==
    [][/\ \A a \in Adapters :
             /\ runs'[a] <= 1
             /\ runs'[a] # runs[a] =>
                    phase = "collecting" /\ ~last.called /\ runs'[a] = runs[a] + 1
       /\ phase' = "testing" =>
             \A a \in Adapters : runs'[a] = IF enabled'[a] THEN 1 ELSE 0
       /\ last'.called => phase' = "testing"
       /\ phase = "testing" =>
             /\ runs' = runs
             /\ \A a \in Adapters : OnlyBackfill(a)]_vars

\* tests running, both checkers run once, a call has filled a name in
C9_Witness ==
    /\ phase = "testing"
    /\ \A a \in Adapters : runs[a] = 1
    /\ last.called
    /\ typechecker_result # last.pre

\* ------------------------------------------------------ the patched module
\* a name the hook looks at: it starts neither with "__" nor with "@py"
\* (the dunder names and the names pytest's assertion rewriting binds)
Looked(n) == n[1] \notin {"__", "@py"}

Brackets(type) == {i \in DOMAIN type : type[i] = "["}
\* one subscript, whose arguments hold no further subscript
SingleLevel(type) == Cardinality(Brackets(type)) = 1
\* a subscript whose arguments hold a further subscript
Nested(type) == Cardinality(Brackets(type)) >= 2

\* the checks the call made of adapter a's record against an unsubscripted type
BaseChecksOf(a) == SelectSeq(last.log, LAMBDA e : e.adapter = a /\ e.ev = "check_base")

\* C11: when the class a recorded type subscripts does not accept
\* subscripts, a single-level type is checked once more, against its
\* unsubscripted class alone; a type whose arguments hold a further
\* subscript makes the call fail at that adapter, whatever the class of the
\* value.
C11_Original ==
    \A a \in Adapters :
        Reached(a) /\ HasRecord(a) /\ NameConsistent(a) =>
            /\ SingleLevel(RecordOf(a).type) =>
                  /\ Len(BaseChecksOf(a)) = 1
                  /\ BaseChecksOf(a)[1].ref =
                         SubSeq(RecordOf(a).type, 1, DottedEnd(RecordOf(a).type, 1))
            /\ Nested(RecordOf(a).type) => Raised /\ LastEv.adapter = a

\* ------------------------------------------------------ the resolution scope
LegacyWalk == resolved.ran /\ resolved.flavour = "mypy_legacy"

\* the walk agrees with w in what it raised and in the tree it returned
SameOutcome(w) ==
    /\ w.exc = resolved.exc
    /\ ~IsExc(w.exc) => w.modified = resolved.modified /\ w.node = resolved.node

\* the same walk begun from the seed alone
FreshWalk ==
    MypyVisit(ast_parse(resolved.type), FALSE, resolved.globalns, resolved.localns,
              MypyCollectedSeed, FALSE)

C13_TableStable ==
    [][phase = "testing" =>
          \A a \in Adapters :
              /\ DOMAIN typechecker_result'[a] = DOMAIN typechecker_result[a]
              /\ \A pos \in DOMAIN typechecker_result[a] :
                     /\ typechecker_result'[a][pos].type =
                            typechecker_result[a][pos].type
                     /\ typechecker_result'[a][pos].var # typechecker_result[a][pos].var
                            => /\ typechecker_result[a][pos].var = None
                               /\ typechecker_result'[a][pos].var \in VarNames]_vars

\* a call that failed on the name an earlier call had filled in, which stays
C13_Witness ==
    /\ Raised
    /\ HasEv("name_mismatch", "mypy")
    /\ RecordOf("mypy").var \in VarNames \ {last.var_name}
    /\ typechecker_result["mypy"] = last.pre["mypy"]

\* ------------------------------------------------------- the mypy resolver
MypyWalk == resolved.ran /\ resolved.flavour = "mypy"

\* a name the call site binds
CallerHolds(n) == <<n>> \in DOMAIN resolved.globalns \cup DOMAIN resolved.localns

\* a bare name some namespace holds: the caller's, builtins, typing, or the
\* importable modules
BareResolvable(n) ==
    \/ CallerHolds(n)
    \/ n \in BuiltinNames \cup ImportableModules \cup ModuleAttrs("typing")

\* every identifier of the type names something: a dotted name by the
\* attribute of its module or, failing that, by its bare trailing name at
\* the call site
Resolvable(type) ==
    \A i \in DOMAIN type :
        IsIdent(type[i]) =>
            IF i > 2 /\ type[i - 1] = "."
            THEN \/ /\ type[i - 2] \in ImportableModules
                    /\ type[i] \in ModuleAttrs(type[i - 2])
                 \/ CallerHolds(type[i])
            ELSE IF i < Len(type) /\ type[i + 1] = "."
            THEN TRUE
            ELSE BareResolvable(type[i])

\* the walk returned another tree than the one parsed
Rewrote == resolved.node # ast_parse(resolved.type)

\* C14: for a type whose identifiers are all resolvable the mypy resolver
\* raises nothing, its `modified` flag is true exactly when the tree it
\* returns differs from the parsed one (a dotted name replaced by its bare
\* trailing name, an '@<constant>' suffix discarded), and the reference
\* handed to the structural check is the text of the tree it returned.
C14_Original ==
    MypyWalk /\ Resolvable(resolved.type) =>
        /\ ~IsExc(resolved.exc)
        /\ resolved.modified <=> Rewrote
        /\ resolved.ref = ast_unparse(resolved.node)

====
